---- MODULE Spec2Model ----
(***************************************************************************)
(* State-machine model of snakebevy (src/src/main.rs): the tick-driven     *)
(* snake simulation.  One update cycle is the sequence of systems that     *)
(* main() registers, followed by the application of the deferred commands  *)
(* (spawn / despawn) at the end of the stage.                              *)
(***************************************************************************)
EXTENDS Integers, Naturals, Sequences, FiniteSets, TLC

VARIABLES
    pc,                 \* the system that runs next in the update cycle
    world,              \* entity store: id -> entity record
    commands,           \* deferred commands of this cycle, in system order
    segments,           \* SnakeSegments.0 : Vec<Entity>
    last_tail_position, \* LastTailPosition.0 : Option<Position>
    snake_finished,     \* SnakeMoveTimer.0.finished
    game_over_events,   \* Events<GameOverEvent>: double buffer
    growth_events,      \* Events<GrowthEvent>: double buffer
    readers,            \* unread counts of the three Local<EventReader>
    panicked,           \* an unwrap() failed
    ticks,              \* number of elapsed ticks so far (bounded)
    hist                \* history: what the systems of this cycle did

vars == << pc, world, commands, segments, last_tail_position, snake_finished,
           game_over_events, growth_events, readers, panicked,
           ticks, hist >>

----------------------------------------------------------------------------
(* Program constants                                                       *)

ARENA_HEIGHT == 20
ARENA_WIDTH == 20

(* Bounds of the model: elapsed ticks of a run, food entities up to which  *)
(* the spawn timer elapses, free ticks after the plan of SpecPlan, and     *)
(* elapsed ticks of a run of SpecKeys                                      *)

MaxTicks == 5
MaxFood == 1
MaxFree == 2
MaxKeyTicks == 3

\* the cells random() may pick for a new food entity in the model
FoodCells == { [x |-> 0, y |-> 3], [x |-> 0, y |-> 4] }

Ids == 0 .. (MaxTicks + MaxFree + MaxFood + 10)

Directions == { "Left", "Up", "Right", "Down" }

Pos(px, py) == [x |-> px, y |-> py]

None == [some |-> FALSE, pos |-> Pos(0, 0)]
Some(p) == [some |-> TRUE, pos |-> p]

----------------------------------------------------------------------------
(* Direction                                                               *)

oppositeIdentity(d) == d

opposite(d) ==
    CASE d = "Left" -> "Right"
      [] d = "Right" -> "Left"
      [] d = "Up" -> "Down"
      [] d = "Down" -> "Up"

----------------------------------------------------------------------------
(* Entity store and deferred commands                                      *)

NoEntity == [kind |-> "none", pos |-> Pos(0, 0),
             direction |-> "Up", try_direction |-> "Up"]

FoodEntity(p) == [kind |-> "food", pos |-> p,
                  direction |-> "Up", try_direction |-> "Up"]

SegmentEntity(p) == [kind |-> "segment", pos |-> p,
                     direction |-> "Up", try_direction |-> "Up"]

HeadEntity(p, d, t) == [kind |-> "head", pos |-> p,
                        direction |-> d, try_direction |-> t]

Live(w, kind) == { e \in Ids : w[e].kind = kind }

Min(S) == CHOOSE m \in S : \A n \in S : m <= n

\* commands.spawn reserves an entity id that no live entity, no pending spawn
\* and no held identifier uses
Reserve(w, cmds, segs) ==
    Min({ e \in Ids :
            /\ w[e].kind = "none"
            /\ \A i \in 1 .. Len(cmds) : cmds[i].id # e
            /\ \A i \in 1 .. Len(segs) : segs[i] # e })

SpawnCmd(e, ent) == [op |-> "spawn", id |-> e, ent |-> ent]
DespawnCmd(e) == [op |-> "despawn", id |-> e, ent |-> NoEntity]

ApplyOne(w, c) ==
    IF c.op = "spawn"
    THEN [w EXCEPT ![c.id] = c.ent]
    ELSE [w EXCEPT ![c.id] = NoEntity]

RECURSIVE Apply(_, _)
Apply(w, cmds) ==
    IF cmds = << >> THEN w ELSE Apply(ApplyOne(w, Head(cmds)), Tail(cmds))

\* a set of entity ids as a sequence, in query (id) order
RECURSIVE InOrder(_)
InOrder(S) ==
    IF S = {} THEN << >> ELSE << Min(S) >> \o InOrder(S \ { Min(S) })

----------------------------------------------------------------------------
(* Events<T> and EventReader<T>: an event stays buffered for two updates;   *)
(* a reader keeps the number of buffered events it has not yet seen.       *)

NoEvents == [prev |-> 0, cur |-> 0]

Send(ev, n) == [ev EXCEPT !.cur = @ + n]

\* Events::update: the older buffer is dropped, the newer becomes the older
EventsSwap(ev) == [prev |-> ev.cur, cur |-> 0]

\* what a reader still has to see after the older buffer was dropped
Remaining(unread, ev) == IF unread < ev.cur THEN unread ELSE ev.cur

\* reader.iter(&events).next().is_some()
HasUnread(unread) == unread > 0

----------------------------------------------------------------------------
(* Startup: game_setup and spawn_initial_snake                             *)

\* spawn_segment: the command and the identifier it returns
SpawnSegment(w, cmds, segs, p) ==
    LET e == Reserve(w, cmds, segs)
    IN  [commands |-> Append(cmds, SpawnCmd(e, SegmentEntity(p))), id |-> e]

SpawnInitialSnake(w, cmds, segs) ==
    LET first == SpawnSegment(w, cmds, segs, Pos(3, 2))
        segs1 == << first.id >>
        h     == Reserve(w, first.commands, segs1)
    IN  [commands |-> Append(first.commands,
                             SpawnCmd(h, HeadEntity(Pos(3, 3), "Up", "Up"))),
         segments |-> segs1]

SpawnFood(w, cmds, segs, cell) ==
    Append(cmds, SpawnCmd(Reserve(w, cmds, segs), FoodEntity(cell)))

EmptyWorld == [e \in Ids |-> NoEntity]

GameSetup(cell) ==
    SpawnInitialSnake(EmptyWorld,
                      SpawnFood(EmptyWorld, << >>, << >>, cell), << >>)

\* what the systems of the current cycle did (reset when a cycle begins)
NewCycle(h) ==
    [h EXCEPT !.go_sent = 0, !.eaten = 0, !.grown = 0, !.spawned = 0,
              !.food_timer = FALSE, !.reset = FALSE, !.tail_pre = None,
              !.self_hit = FALSE]

\* history of the current game: the sum of the unit vectors of the directions
\* latched at its ticks, kept while none of them was a reversal, the
\* number of eaten food entities that no appended segment answers, and the
\* number of its ticks since the player let go of the keys for good
NewGame(h) ==
    [h EXCEPT !.sum = Pos(3, 3), !.nonrev = TRUE, !.owed = 0,
              !.quiet_ticks = 0]

UnitStep(p, d) ==
    Pos(p.x + (IF d = "Right" THEN 1 ELSE IF d = "Left" THEN -1 ELSE 0),
        p.y + (IF d = "Up" THEN 1 ELSE IF d = "Down" THEN -1 ELSE 0))

Reverse(a, b) ==
    \/ { a, b } = { "Up", "Down" }
    \/ { a, b } = { "Left", "Right" }

\* the history after a tick on which a head going d had latched t
Latched(h, d, t) ==
    IF h.nonrev /\ ~Reverse(d, t)
    THEN [h EXCEPT !.sum = UnitStep(@, t)]
    ELSE [h EXCEPT !.sum = Pos(3, 3), !.nonrev = FALSE]

\* the state after game_setup, the food at one of the given cells
InitWith(cells) ==
    \E cell \in cells :
        /\ pc = "events_update"
        /\ world = Apply(EmptyWorld, GameSetup(cell).commands)
        /\ commands = << >>
        /\ segments = GameSetup(cell).segments
        /\ last_tail_position = None
        /\ snake_finished = FALSE
        /\ game_over_events = NoEvents
        /\ growth_events = NoEvents
        /\ readers = [game_over |-> 0, snake_growth |-> 0, food_spawner |-> 0]
        /\ panicked = FALSE
        /\ ticks = 0
        /\ hist = [go_sent |-> 0, eaten |-> 0, grown |-> 0, spawned |-> 0,
                   food_timer |-> FALSE, reset |-> FALSE, tail_pre |-> None,
                   self_hit |-> FALSE, keys |-> {},
                   sum |-> Pos(3, 3), nonrev |-> TRUE, owed |-> 0,
                   quiet |-> FALSE, quiet_ticks |-> 0]

Init == InitWith(FoodCells)

----------------------------------------------------------------------------
(* The systems of one update cycle, in the order main() registers them      *)

\* stage EVENT: Events::<T>::update_system of both event types
events_update ==
    /\ pc = "events_update"
    /\ ~panicked
    /\ game_over_events' = EventsSwap(game_over_events)
    /\ growth_events' = EventsSwap(growth_events)
    /\ readers' = [game_over |-> Remaining(readers.game_over, game_over_events),
                   snake_growth |-> Remaining(readers.snake_growth, growth_events),
                   food_spawner |-> Remaining(readers.food_spawner, growth_events)]
    /\ hist' = NewCycle(hist)
    /\ pc' = "snake_timer"
    /\ UNCHANGED << world, commands, segments, last_tail_position,
                    snake_finished, panicked, ticks >>

\* snake_timer.0.tick(delta): finished is true in the cycles in which the
\* interval elapsed
SnakeTimer(limit) ==
    /\ pc = "snake_timer"
    /\ ~panicked
    /\ \E f \in BOOLEAN :
        /\ f => ticks < limit
        /\ snake_finished' = f
        /\ ticks' = IF f THEN ticks + 1 ELSE ticks
    /\ pc' = "handle_movement"
    /\ UNCHANGED << world, commands, segments, last_tail_position,
                    game_over_events, growth_events, readers, panicked, hist >>

ResolveAnyPressed(direction, try_direction, keys) ==
    IF "Left" \in keys THEN "Left"
    ELSE IF "Down" \in keys THEN "Down"
    ELSE IF "Up" \in keys THEN "Up"
    ELSE IF "Right" \in keys THEN "Right"
    ELSE try_direction

\* the if / else-if chain of handle_movement for one head
Resolve(direction, try_direction, keys) ==
    IF direction # "Left" /\ "Left" \in keys THEN "Left"
    ELSE IF direction # "Down" /\ "Down" \in keys THEN "Down"
    ELSE IF direction # "Up" /\ "Up" \in keys THEN "Up"
    ELSE IF direction # "Right" /\ "Right" \in keys THEN "Right"
    ELSE try_direction

\* the loop of handle_movement over the heads; keys: the directions whose
\* key is pressed in this cycle
Resolved(keys) ==
    [e \in Ids |->
        IF world[e].kind = "head"
        THEN [world[e] EXCEPT !.try_direction =
                Resolve(world[e].direction, @, keys)]
        ELSE world[e]]

HandleMovement(KeySets) ==
    /\ pc = "handle_movement"
    /\ ~panicked
    /\ \E keys \in KeySets : world' = Resolved(keys)
    /\ pc' = "snake_movement"
    /\ UNCHANGED << commands, segments, last_tail_position, snake_finished,
                    game_over_events, growth_events, readers, panicked,
                    ticks, hist >>

\* the same, the history keeping the pressed keys until the next system has
\* run
HandleMovementKeys(KeySets) ==
    /\ pc = "handle_movement"
    /\ ~panicked
    /\ \E keys \in KeySets :
        /\ world' = Resolved(keys)
        /\ hist' = [hist EXCEPT !.keys = keys]
    /\ pc' = "snake_movement"
    /\ UNCHANGED << commands, segments, last_tail_position, snake_finished,
                    game_over_events, growth_events, readers, panicked,
                    ticks >>

\* if dir != head.direction.opposite() { head.direction = dir; }
Commit(direction, dir) ==
    IF dir # opposite(direction) THEN dir ELSE direction

DisplaceYDown(p, d) ==
    CASE d = "Left" -> Pos(p.x - 1, p.y)
      [] d = "Right" -> Pos(p.x + 1, p.y)
      [] d = "Up" -> Pos(p.x, p.y - 1)
      [] d = "Down" -> Pos(p.x, p.y + 1)

\* match &head.direction { ... head_pos.x -= 1 ... }
Displace(p, d) ==
    CASE d = "Left" -> Pos(p.x - 1, p.y)
      [] d = "Right" -> Pos(p.x + 1, p.y)
      [] d = "Up" -> Pos(p.x, p.y + 1)
      [] d = "Down" -> Pos(p.x, p.y - 1)

OutOfArenaUpperOnly(p) ==
    p.x >= ARENA_WIDTH \/ p.y >= ARENA_HEIGHT

OutOfArenaLate(p) ==
    p.x < -1 \/ p.y < -1 \/ p.x > ARENA_WIDTH \/ p.y > ARENA_HEIGHT

OutOfArena(p) ==
    p.x < 0 \/ p.y < 0 \/ p.x >= ARENA_WIDTH \/ p.y >= ARENA_HEIGHT

ContainsButLast(positions, p) ==
    \E i \in 1 .. Len(positions) - 1 : positions[i] = p

\* segment_positions.contains(&last_head_pos)
Contains(positions, p) == \E i \in 1 .. Len(positions) : positions[i] = p

CollisionsNewHead(new_head_pos, segment_positions, last_head_pos) ==
    (IF OutOfArena(new_head_pos) THEN 1 ELSE 0)
    + (IF Contains(segment_positions, new_head_pos) THEN 1 ELSE 0)

\* number of GameOverEvents one head sends on a tick
Collisions(new_head_pos, segment_positions, last_head_pos) ==
    (IF OutOfArena(new_head_pos) THEN 1 ELSE 0)
    + (IF Contains(segment_positions, last_head_pos) THEN 1 ELSE 0)

ShiftedPush(segment_positions, last_head_pos) ==
    segment_positions \o << last_head_pos >>

\* segment_positions.insert(0, last_head_pos)
Shifted(segment_positions, last_head_pos) ==
    << last_head_pos >> \o segment_positions

FirstOf(shifted) == Some(shifted[1])

LastOfNone(shifted) == None

\* Some(*segment_positions.last().unwrap())
LastOf(shifted) == Some(shifted[Len(shifted)])

\* every identifier of the list names a live entity (with a Position)
AllLive(w, segs) == \A i \in 1 .. Len(segs) : w[segs[i]].kind # "none"

\* the zip / for_each of snake_movement: segment i takes element i
Follow(w, segs, shifted) ==
    [e \in Ids |->
        IF \E i \in 1 .. Len(segs) : segs[i] = e
        THEN [w[e] EXCEPT !.pos =
                shifted[CHOOSE i \in 1 .. Len(segs) :
                          /\ segs[i] = e
                          /\ \A j \in 1 .. Len(segs) : segs[j] = e => j <= i]]
        ELSE w[e]]

\* the body of the loop of snake_movement for head h; st holds the state the
\* loop works on
MoveHead(st, h, segs) ==
    IF st.panicked THEN st
    ELSE
    LET head          == st.world[h]
        direction     == Commit(head.direction, head.try_direction)
        last_head_pos == head.pos
        head_pos      == Displace(last_head_pos, direction)
        w1            == [st.world EXCEPT ![h].direction = direction,
                                          ![h].pos = head_pos]
        segment_positions == [i \in 1 .. Len(segs) |-> w1[segs[i]].pos]
        shifted       == Shifted(segment_positions, last_head_pos)
    IN  IF ~AllLive(w1, segs)
        THEN [st EXCEPT !.world = w1,
                        !.sent = @ + (IF OutOfArena(head_pos) THEN 1 ELSE 0),
                        !.panicked = TRUE]
        ELSE [world    |-> Follow(w1, segs, shifted),
              sent     |-> st.sent + Collisions(head_pos, segment_positions,
                                                last_head_pos),
              ltp      |-> LastOf(shifted),
              panicked |-> FALSE]

RECURSIVE MoveHeads(_, _, _)
MoveHeads(st, hs, segs) ==
    IF hs = << >> THEN st
    ELSE MoveHeads(MoveHead(st, Head(hs), segs), Tail(hs), segs)

\* the pre-move position of the last segment, whether a head stood on a
\* segment before the move, and the latched direction
MovementHistory(h) ==
    LET h1 == IF segments # << >> /\ AllLive(world, segments)
              THEN [h EXCEPT !.tail_pre =
                      Some(world[segments[Len(segments)]].pos)]
              ELSE h
        h2 == [h1 EXCEPT !.self_hit =
                 \E e \in Live(world, "head"), i \in 1 .. Len(segments) :
                    world[segments[i]] = SegmentEntity(world[e].pos),
                         !.quiet_ticks = IF h.quiet THEN @ + 1 ELSE @]
    IN  IF Live(world, "head") = {} THEN h2
        ELSE LET e == Min(Live(world, "head"))
             IN  Latched(h2, world[e].direction, world[e].try_direction)

snake_movement ==
    /\ pc = "snake_movement"
    /\ ~panicked
    /\ IF ~snake_finished
       THEN /\ hist' = [hist EXCEPT !.keys = {}]
            /\ UNCHANGED << world, last_tail_position, game_over_events,
                            readers, panicked >>
       ELSE LET st == MoveHeads([world |-> world, sent |-> 0,
                                 ltp |-> last_tail_position,
                                 panicked |-> FALSE],
                                InOrder(Live(world, "head")), segments)
            IN  /\ world' = st.world
                /\ last_tail_position' = st.ltp
                /\ game_over_events' = Send(game_over_events, st.sent)
                /\ readers' = [readers EXCEPT !.game_over = @ + st.sent]
                /\ panicked' = st.panicked
                /\ hist' = MovementHistory(
                              [hist EXCEPT !.go_sent = @ + st.sent,
                                           !.keys = {}])
    /\ pc' = "snake_eating"
    /\ UNCHANGED << commands, segments, snake_finished, growth_events, ticks >>

\* the food entities that lie on the position of some head, in query order
EatenFood(w) ==
    SelectSeq(InOrder(Live(w, "food")),
              LAMBDA f : \E h \in Live(w, "head") : w[f].pos = w[h].pos)

RECURSIVE DespawnAll(_, _)
DespawnAll(cmds, es) ==
    IF es = << >> THEN cmds
    ELSE DespawnAll(Append(cmds, DespawnCmd(Head(es))), Tail(es))

\* number of (head, food) pairs at equal positions: one GrowthEvent each
EatenPairs(w) ==
    Cardinality({ pr \in Live(w, "head") \X Live(w, "food") :
                    w[pr[1]].pos = w[pr[2]].pos })

snake_eating ==
    /\ pc = "snake_eating"
    /\ ~panicked
    /\ IF ~snake_finished
       THEN UNCHANGED << commands, growth_events, readers, hist >>
       ELSE /\ commands' = DespawnAll(commands, EatenFood(world))
            /\ growth_events' = Send(growth_events, EatenPairs(world))
            /\ readers' = [readers EXCEPT
                             !.snake_growth = @ + EatenPairs(world),
                             !.food_spawner = @ + EatenPairs(world)]
            /\ hist' = [hist EXCEPT !.eaten = Len(EatenFood(world)),
                                    !.owed = @ + Len(EatenFood(world))]
    /\ pc' = "snake_growth"
    /\ UNCHANGED << world, segments, last_tail_position, snake_finished,
                    game_over_events, panicked, ticks >>

AppendedNever(unread) == 0

AppendedAlways(unread) == 1

\* how many segments snake_growth appends for the events its reader yields
Appended(unread) == IF HasUnread(unread) THEN 1 ELSE 0

snake_growth ==
    /\ pc = "snake_growth"
    /\ ~panicked
    /\ readers' = [readers EXCEPT !.snake_growth = 0]
    /\ IF Appended(readers.snake_growth) = 0
       THEN UNCHANGED << commands, segments, panicked, hist >>
       ELSE IF ~last_tail_position.some
       THEN /\ panicked' = TRUE
            /\ UNCHANGED << commands, segments, hist >>
       ELSE LET seg == SpawnSegment(world, commands, segments,
                                    last_tail_position.pos)
            IN  /\ commands' = seg.commands
                /\ segments' = Append(segments, seg.id)
                /\ hist' = [hist EXCEPT !.grown = @ + 1, !.owed = @ - 1]
                /\ UNCHANGED panicked
    /\ pc' = "food_spawner"
    /\ UNCHANGED << world, last_tail_position, snake_finished,
                    game_over_events, growth_events, ticks >>

SpawnsFoodOnTimer(finished, unread) == finished

\* timer.0.finished || growth_reader.iter(&growth_events).next().is_some():
\* the reader is asked (and so advanced) only when the timer has not finished
SpawnsFood(finished, unread) == finished \/ HasUnread(unread)

ReaderKeeps(finished, unread) == unread

ReaderAfterSpawner(finished, unread) == IF finished THEN unread ELSE 0

\* finished: whether the spawner's own timer elapsed in this cycle (MaxFood
\* caps the food the timer adds); cell: the random cell, one of cells
FoodSpawner(cells) ==
    /\ pc = "food_spawner"
    /\ ~panicked
    /\ \E finished \in BOOLEAN, cell \in cells :
        /\ finished => Cardinality(Live(Apply(world, commands), "food")) < MaxFood
        /\ readers' = [readers EXCEPT !.food_spawner =
                         ReaderAfterSpawner(finished, @)]
        /\ IF SpawnsFood(finished, readers.food_spawner)
           THEN /\ commands' = SpawnFood(world, commands, segments, cell)
                /\ hist' = [hist EXCEPT !.spawned = @ + 1,
                                        !.food_timer = finished]
           ELSE /\ UNCHANGED commands
                /\ hist' = [hist EXCEPT !.food_timer = finished]
    /\ pc' = "game_over"
    /\ UNCHANGED << world, segments, last_tail_position, snake_finished,
                    game_over_events, growth_events, panicked, ticks >>

ResetCommandsKeepFood(w, cmds, segs) ==
    SpawnInitialSnake(w,
        DespawnAll(DespawnAll(cmds,
            InOrder(Live(w, "segment"))),
            InOrder(Live(w, "head"))),
        segs)

ResetCommandsKeepHead(w, cmds, segs) ==
    SpawnInitialSnake(w,
        DespawnAll(DespawnAll(cmds,
            InOrder(Live(w, "segment"))),
            InOrder(Live(w, "food"))),
        segs)

\* the three despawn loops of game_over, then spawn_initial_snake
ResetCommands(w, cmds, segs) ==
    SpawnInitialSnake(w,
        DespawnAll(DespawnAll(DespawnAll(cmds,
            InOrder(Live(w, "segment"))),
            InOrder(Live(w, "food"))),
            InOrder(Live(w, "head"))),
        segs)

game_over ==
    /\ pc = "game_over"
    /\ ~panicked
    /\ readers' = [readers EXCEPT !.game_over = 0]
    /\ IF HasUnread(readers.game_over)
       THEN /\ commands' = ResetCommands(world, commands, segments).commands
            /\ segments' = ResetCommands(world, commands, segments).segments
            /\ hist' = [hist EXCEPT !.reset = TRUE]
       ELSE UNCHANGED << commands, segments, hist >>
    /\ pc' = "apply_commands"
    /\ UNCHANGED << world, last_tail_position, snake_finished,
                    game_over_events, growth_events, panicked, ticks >>

\* end of the stage: the command buffers of the systems are applied in order
apply_commands ==
    /\ pc = "apply_commands"
    /\ ~panicked
    /\ world' = Apply(world, commands)
    /\ commands' = << >>
    /\ hist' = IF hist.reset THEN NewGame(hist) ELSE hist
    /\ pc' = "events_update"
    /\ UNCHANGED << segments, last_tail_position, snake_finished,
                    game_over_events, growth_events, readers, panicked,
                    ticks >>

\* every cycle may or may not be a tick, and any keys may be pressed
snake_timer == SnakeTimer(MaxTicks)

handle_movement == HandleMovement(SUBSET Directions)

food_spawner == FoodSpawner(FoodCells)

Next ==
    \/ events_update
    \/ snake_timer
    \/ handle_movement
    \/ snake_movement
    \/ snake_eating
    \/ snake_growth
    \/ food_spawner
    \/ game_over
    \/ apply_commands

Spec == Init /\ [][Next]_vars

----------------------------------------------------------------------------
(* A longer game under a restricted player: up to each of the first ticks  *)
(* the player holds the key of a fixed plan (to the left wall, then once   *)
(* around a 2 x 2 block), after which any keys may be pressed for MaxFree  *)
(* more ticks.                                                             *)

Plan == << "Left", "Left", "Left", "Up", "Right", "Down" >>

\* the tick the keys pressed now are latched for
UpcomingTick == IF snake_finished THEN ticks ELSE ticks + 1

PlanKeys ==
    IF UpcomingTick <= Len(Plan)
    THEN { { Plan[UpcomingTick] } }
    ELSE SUBSET Directions

plan_snake_timer == SnakeTimer(Len(Plan) + MaxFree)

plan_handle_movement == HandleMovement(PlanKeys)

NextPlan ==
    \/ events_update
    \/ plan_snake_timer
    \/ plan_handle_movement
    \/ snake_movement
    \/ snake_eating
    \/ snake_growth
    \/ food_spawner
    \/ game_over
    \/ apply_commands

SpecPlan == Init /\ [][NextPlan]_vars

----------------------------------------------------------------------------
(* A short game in which the history keeps the keys pressed in a cycle     *)

keys_snake_timer == SnakeTimer(MaxKeyTicks)

keys_handle_movement == HandleMovementKeys(SUBSET Directions)

NextKeys ==
    \/ events_update
    \/ keys_snake_timer
    \/ keys_handle_movement
    \/ snake_movement
    \/ snake_eating
    \/ snake_growth
    \/ food_spawner
    \/ game_over
    \/ apply_commands

SpecKeys == Init /\ [][NextKeys]_vars

----------------------------------------------------------------------------
(* A game around the start: the player holds the keys of a plan that takes *)
(* the head once around the 2 x 2 block above the start and back to (3,3), *)
(* with food falling on the cells of that round; after the last tick of    *)
(* the plan any keys may be pressed, until the player lets go of the keys   *)
(* for good: from then on no key is pressed and the ticks go on.           *)

HomePlan == << "Up", "Right", "Down", "Left" >>

HomeCells == { [x |-> 3, y |-> 4], [x |-> 4, y |-> 4], [x |-> 3, y |-> 3] }

HomeKeys ==
    IF UpcomingTick <= Len(HomePlan)
    THEN { { HomePlan[UpcomingTick] } }
    ELSE SUBSET Directions

InitHome == InitWith(HomeCells)

home_snake_timer == ~hist.quiet /\ SnakeTimer(Len(HomePlan))

home_handle_movement == ~hist.quiet /\ HandleMovement(HomeKeys)

\* the tick timer once the keys are let go: the ticks are no longer counted
quiet_snake_timer ==
    /\ hist.quiet
    /\ pc = "snake_timer"
    /\ ~panicked
    /\ snake_finished' \in BOOLEAN
    /\ pc' = "handle_movement"
    /\ UNCHANGED << world, commands, segments, last_tail_position,
                    game_over_events, growth_events, readers, panicked,
                    ticks, hist >>

\* handle_movement with no key pressed, in this and every later cycle
quiet_handle_movement ==
    /\ hist.quiet \/ UpcomingTick > Len(HomePlan)
    /\ pc = "handle_movement"
    /\ ~panicked
    /\ world' = Resolved({})
    /\ hist' = [hist EXCEPT !.quiet = TRUE]
    /\ pc' = "snake_movement"
    /\ UNCHANGED << commands, segments, last_tail_position, snake_finished,
                    game_over_events, growth_events, readers, panicked,
                    ticks >>

home_food_spawner == FoodSpawner(HomeCells)

NextHome ==
    \/ events_update
    \/ home_snake_timer
    \/ home_handle_movement
    \/ quiet_snake_timer
    \/ quiet_handle_movement
    \/ snake_movement
    \/ snake_eating
    \/ snake_growth
    \/ home_food_spawner
    \/ game_over
    \/ apply_commands

SpecHome == InitHome /\ [][NextHome]_vars

----------------------------------------------------------------------------
(* Properties                                                              *)

Heads == Live(world, "head")

\* the step taken from this state is snake_movement on an elapsed tick
Tick == pc = "snake_movement" /\ snake_finished /\ ~panicked

\* the systems after snake_movement have the moved snake before them
AfterMovement ==
    pc \in { "snake_eating", "snake_growth", "food_spawner", "game_over",
             "apply_commands" }

\* the cycle has ended: its commands are applied
CycleEnd == pc = "events_update"

SegmentPositions == [i \in 1 .. Len(segments) |-> world[segments[i]].pos]

Outside(p) ==
    p.x < 0 \/ p.y < 0 \/ p.x >= ARENA_WIDTH \/ p.y >= ARENA_HEIGHT

\* the segments have taken the places ahead of them and the tail's place is
\* recorded (the step is a tick with head h)
Followed(h) ==
    /\ \A i \in 1 .. Len(segments) :
          world'[segments[i]].pos =
             IF i = 1 THEN world[h].pos ELSE world[segments[i - 1]].pos
    /\ last_tail_position' = Some(world[segments[Len(segments)]].pos)

\* C1: on every elapsed tick the head's direction becomes the latched
\* try_direction exactly when that is not the opposite of its direction, and
\* stays as it was otherwise; the direction after a tick is never the opposite
\* of the direction before it.
C1_ReversalRejection ==
    [][Tick =>
         \A h \in Heads :
            /\ world'[h].direction =
                  IF Reverse(world[h].direction, world[h].try_direction)
                  THEN world[h].direction
                  ELSE world[h].try_direction
            /\ ~Reverse(world[h].direction, world'[h].direction)]_vars

\* a tick has just left a head going Up although Down is latched
C1_Witness ==
    /\ pc = "snake_eating" /\ snake_finished
    /\ \E h \in Heads :
          world[h].direction = "Up" /\ world[h].try_direction = "Down"

\* C2: on every elapsed tick with a segment list of length n >= 1, segment 0
\* moves to the head's pre-move position, segment i to segment i-1's pre-move
\* position, and LastTailPosition becomes the last segment's pre-move
\* position; from head (3,3) going Up with one segment at (3,2) the tick gives
\* head (3,4), segment (3,3), LastTailPosition (3,2).
C2_BodyFollowThrough ==
    [][Tick /\ Len(segments) >= 1 =>
         \A h \in Heads :
            /\ Followed(h)
            /\ ( /\ world[h].pos = Pos(3, 3)
                 /\ world[h].direction = "Up"
                 /\ world[h].try_direction \in { "Up", "Down" }
                 /\ SegmentPositions = << Pos(3, 2) >> )
               => /\ world'[h].pos = Pos(3, 4)
                  /\ world'[segments[1]].pos = Pos(3, 3)
                  /\ last_tail_position' = Some(Pos(3, 2))]_vars

\* the concrete scenario has happened, and so has a tick of a longer snake
C2_Witness ==
    /\ pc = "snake_eating" /\ snake_finished
    /\ \E h \in Heads : world[h].pos = Pos(3, 4)
    /\ SegmentPositions = << Pos(3, 3) >>
    /\ last_tail_position = Some(Pos(3, 2))

\* C3: while every direction latched at a tick of the current game was
\* non-reversing, the head's position is (3,3) plus the sum of the unit
\* vectors of those directions (Left x-1, Right x+1, Up y+1, Down y-1).
C3_HeadIsVectorSum ==
    hist.nonrev => \A h \in Heads : world[h].pos = hist.sum

\* three ticks with a turn, none reversing: Up, Left, Left
C3_Witness ==
    /\ hist.nonrev /\ ticks = 3 /\ hist.sum = Pos(1, 4)
    /\ \E h \in Heads : world[h].pos = Pos(1, 4)

\* C4: on every elapsed tick that takes the head out of [0,20) x [0,20) a
\* GameOverEvent is sent on that tick, and the head and the segments still
\* complete their move.
C4_BoundaryCollision ==
    [][Tick =>
         \A h \in Heads :
            Outside(world'[h].pos) =>
               /\ game_over_events'.cur >= game_over_events.cur + 1
               /\ readers'.game_over >= 1
               /\ world'[h].pos = UnitStep(world[h].pos, world'[h].direction)
               /\ Followed(h)]_vars

\* the head has just moved Left from (0, y): it is at x = -1, the first
\* segment is where the head was, and the event is sent
C4_Witness ==
    /\ pc = "snake_eating" /\ snake_finished
    /\ \E h \in Heads : world[h].pos.x = -1 /\ world[h].direction = "Left"
    /\ world[segments[1]].pos.x = 0
    /\ hist.go_sent >= 1
    /\ readers.game_over >= 1

\* C5 as stated: on a tick on which the head's pre-move position is the
\* position of a segment, exactly one GameOverEvent is sent in that cycle.
C5_ExactlyOneEvent ==
    AfterMovement /\ hist.self_hit => hist.go_sent = 1

\* C5 amended: on such a tick the self-collision check sends one
\* GameOverEvent however many segments match, and the cycle's total is one,
\* or two when the same move also takes the head out of the arena.
C5_OnePerCheck ==
    AfterMovement /\ hist.self_hit =>
       \A h \in Heads :
          hist.go_sent = 1 + (IF Outside(world[h].pos) THEN 1 ELSE 0)

\* a tick found the head on a segment and the head stayed in the arena
C5_Witness ==
    /\ pc = "snake_eating" /\ hist.self_hit /\ hist.go_sent = 1
    /\ \E h \in Heads : ~Outside(world[h].pos)

\* C6 as stated: every consumed food entity is answered by one appended
\* segment in the same or the next tick: on a tick without game over, after
\* snake_growth has run, no food entity eaten on an earlier tick is still
\* unanswered.
C6_OneSegmentPerFood ==
    pc = "food_spawner" /\ snake_finished /\ hist.go_sent = 0 =>
       hist.owed <= hist.eaten

\* C6 amended: a tick on which eating detection consumes one or more food
\* entities lengthens the segment list by exactly 1 in that same cycle,
\* however many were consumed on it; a cycle without eating appends nothing.
C6_OneSegmentPerEatingTick ==
    [][pc = "snake_growth" /\ ~panicked =>
         Len(segments') = Len(segments) + (IF hist.eaten > 0 THEN 1 ELSE 0)]_vars

\* two food entities were eaten on one tick and one segment was appended
C6_Witness ==
    pc = "food_spawner" /\ hist.eaten = 2 /\ hist.grown = 1

\* C7: a segment the Growth Manager appends is spawned at the tail's pre-move
\* position of the movement step of the same cycle, in which the food was
\* eaten, and its identifier is the new last element of the segment list.
C7_GrowthAtFreshTail ==
    pc = "food_spawner" /\ hist.grown > 0 =>
       /\ snake_finished /\ hist.eaten > 0
       /\ hist.tail_pre.some
       /\ last_tail_position = hist.tail_pre
       /\ commands[Len(commands)] =
             SpawnCmd(segments[Len(segments)],
                      SegmentEntity(hist.tail_pre.pos))
       /\ \A i \in 1 .. Len(segments) - 1 :
             segments[i] # segments[Len(segments)]

\* the snake grows a second time, at a tail that has moved since the first
C7_Witness ==
    /\ pc = "food_spawner" /\ hist.grown = 1 /\ Len(segments) = 3
    /\ last_tail_position = Some(Pos(2, 3))

\* C8 as stated: the Food Spawner spawns one food entity per trigger of the
\* cycle (timer elapsed, GrowthEvent occurred): two with both, one with one,
\* none with neither.
C8_OneFoodPerTrigger ==
    pc = "game_over" =>
       hist.spawned = (IF hist.food_timer THEN 1 ELSE 0)
                      + (IF hist.eaten > 0 THEN 1 ELSE 0)

\* C8 amended: in every cycle the Food Spawner spawns at most one food
\* entity: exactly one when its timer elapsed or its reader holds a
\* GrowthEvent it has not yet seen (of this cycle, or of the previous cycle
\* when the timer elapsed in that one), and none otherwise.
C8_OneFoodPerCycle ==
    [][pc = "food_spawner" /\ ~panicked =>
         /\ hist'.spawned =
               IF hist'.food_timer \/ readers.food_spawner > 0 THEN 1 ELSE 0
         /\ Len(commands') = Len(commands) + hist'.spawned]_vars

\* the timer elapsed in a cycle in which food was eaten: one food is spawned
C8_Witness ==
    pc = "game_over" /\ hist.food_timer /\ hist.eaten > 0 /\ hist.spawned = 1

\* C9: at the end of a cycle in which a GameOverEvent was observed there are
\* exactly one head and one segment, the head at (3,3) with both directions
\* Up, the segment at (3,2), and the segment list holds just that segment.
C9_ResetToStart ==
    CycleEnd /\ hist.reset =>
       /\ \E h \in Ids : Heads = { h }
                         /\ world[h] = HeadEntity(Pos(3, 3), "Up", "Up")
       /\ \E e \in Ids : /\ Live(world, "segment") = { e }
                         /\ world[e] = SegmentEntity(Pos(3, 2))
                         /\ segments = << e >>

\* C10 as stated: at the end of the cycle in which a GameOverEvent is
\* handled exactly one food entity is live.
C10_OneFoodAfterReset ==
    CycleEnd /\ hist.reset => Cardinality(Live(world, "food")) = 1

\* C10 amended: at the end of the cycle in which a GameOverEvent is handled
\* the live food entities are those the Food Spawner spawned in that cycle:
\* none, or one when its timer elapsed or a GrowthEvent reached it.
C10_OnlyNewFoodAfterReset ==
    CycleEnd /\ hist.reset =>
       Cardinality(Live(world, "food")) = hist.spawned

\* a reset has left the play field without food
C10_Witness ==
    CycleEnd /\ hist.reset /\ Live(world, "food") = {}

\* C11: at the end of every update cycle exactly one head entity exists, also
\* at the end of a cycle in which several GameOverEvents were sent.
C11_ExactlyOneHead ==
    CycleEnd => Cardinality(Heads) = 1

\* a cycle in which two GameOverEvents were sent has ended with its reset
C11_Witness ==
    /\ CycleEnd /\ hist.reset /\ hist.go_sent = 2
    /\ Cardinality(Heads) = 1

\* C12: at the end of every update cycle the length of the segment list
\* equals the number of live segment entities and the head is not in the
\* list, also for a cycle in which a GrowthEvent and a GameOverEvent were both
\* handled.
C12_ListMatchesSegments ==
    CycleEnd =>
       /\ Len(segments) = Cardinality(Live(world, "segment"))
       /\ \A i \in 1 .. Len(segments) : segments[i] \notin Heads

\* C13: at the end of every update cycle no two live segment entities occupy
\* the same grid position.
C13_SegmentsApart ==
    CycleEnd =>
       \A a, b \in Live(world, "segment") :
          a # b => world[a].pos # world[b].pos

\* the order in which handle_movement asks for the keys
KeyPriority == << "Left", "Down", "Up", "Right" >>

\* the places in that order of the keys pressed that differ from direction d
Eligible(keys, d) ==
    { i \in 1 .. Len(KeyPriority) : KeyPriority[i] \in keys /\ KeyPriority[i] # d }

\* C14: in every update cycle the resolver sets intended_direction
\* (try_direction) to the first direction in the order Left, Down, Up, Right
\* whose key is pressed and which differs from current_direction (direction),
\* leaves it unchanged when there is none, and never changes
\* current_direction.
C14_DirectionIntent ==
    [][pc = "handle_movement" /\ ~panicked =>
         \A h \in Heads :
            /\ world'[h].try_direction =
                  IF Eligible(hist'.keys, world[h].direction) = {}
                  THEN world[h].try_direction
                  ELSE KeyPriority[Min(Eligible(hist'.keys, world[h].direction))]
            /\ world'[h].direction = world[h].direction
            /\ world'[h].pos = world[h].pos]_vars

\* Down, Up and Right are pressed while the head goes Down: Up is latched
C14_Witness ==
    /\ pc = "snake_movement" /\ hist.keys = { "Down", "Up", "Right" }
    /\ \E h \in Heads :
          world[h].direction = "Down" /\ world[h].try_direction = "Up"

\* the step taken from this state belongs to a cycle whose tick timer has not
\* elapsed
NonTickStep ==
    /\ ~panicked
    /\ IF pc = "snake_timer" THEN ~snake_finished'
       ELSE pc # "events_update" /\ ~snake_finished

\* the step leaves the snake, the food and the events alone, but for the
\* latched try_direction of a head and a food spawn that has the given cause
Gated(cause) ==
    /\ segments' = segments
    /\ last_tail_position' = last_tail_position
    /\ game_over_events'.cur = game_over_events.cur
    /\ growth_events'.cur = growth_events.cur
    /\ hist'.eaten = 0 /\ hist'.go_sent = 0
    /\ \A e \in Ids :
          /\ world[e].kind = "head" =>
                world'[e] = [world[e] EXCEPT
                               !.try_direction = world'[e].try_direction]
          /\ world[e].kind \in { "segment", "food" } => world'[e] = world[e]
          /\ world[e].kind = "none" => world'[e].kind \in { "none", "food" }
    /\ \A i \in 1 .. Len(commands') :
          commands'[i].op = "spawn" /\ commands'[i].ent.kind = "food"
    /\ Len(commands') > Len(commands) => cause

\* C15 as stated: in a cycle in which the tick timer has not elapsed,
\* direction, head position, segment positions, LastTailPosition and the
\* segment list are unchanged, no food is eaten and no event is sent; only
\* try_direction and a timer-driven food spawn change state.
C15_TickGating ==
    [][NonTickStep => Gated(hist'.food_timer)]_vars

\* C15 amended: the same, where the food spawn of such a cycle is driven by
\* the spawner's timer or by a GrowthEvent of the previous cycle that its
\* reader has not yet seen.
C15_TickGatingDeferred ==
    [][NonTickStep =>
         Gated(hist'.food_timer \/ readers.food_spawner > 0)]_vars

\* food is spawned in a cycle without tick in which the food timer has not
\* elapsed
C15_Witness ==
    /\ pc = "game_over" /\ ~snake_finished
    /\ hist.spawned = 1 /\ ~hist.food_timer

\* C16 as stated: every GrowthEvent and GameOverEvent sent in a cycle is
\* observed by each of its consumers in that cycle and never again: at the
\* end of a cycle no reader has an event left to see, and a segment append,
\* an event-triggered food spawn or a reset happens only in a cycle in which
\* its event was sent.
C16_DeliveredInCycle ==
    CycleEnd =>
       /\ readers.game_over = 0 /\ readers.snake_growth = 0
       /\ readers.food_spawner = 0
       /\ hist.grown > 0 => hist.eaten > 0
       /\ hist.reset => hist.go_sent > 0
       /\ hist.spawned > 0 /\ ~hist.food_timer => hist.eaten > 0

\* C16 amended: the Game-Over Handler and the Growth Manager observe every
\* event in the cycle in which it was sent; the Food Spawner observes a
\* GrowthEvent in that cycle unless its timer elapsed in it, and then in the
\* next cycle at the latest; no consumer observes an event twice.
C16_DeliveredOnce ==
    CycleEnd =>
       /\ readers.game_over = 0 /\ readers.snake_growth = 0
       /\ readers.food_spawner > 0 => hist.food_timer
       /\ hist.grown > 0 => hist.eaten > 0
       /\ hist.reset => hist.go_sent > 0
       /\ hist.spawned > 0 /\ ~hist.food_timer =>
             hist.eaten > 0 \/ growth_events.prev > 0

\* the Food Spawner has spawned for a GrowthEvent of the previous cycle
C16_Witness ==
    /\ CycleEnd /\ hist.spawned = 1 /\ ~hist.food_timer
    /\ hist.eaten = 0 /\ growth_events.prev > 0
    /\ readers.food_spawner = 0

\* C17: at the end of every update cycle the head's position satisfies
\* 0 <= x < 20 and 0 <= y < 20, and within a cycle its coordinates never
\* leave -1 .. 20.
C17_HeadInArena ==
    \A h \in Heads :
       /\ world[h].pos.x \in -1 .. 20 /\ world[h].pos.y \in -1 .. 20
       /\ CycleEnd => /\ world[h].pos.x \in 0 .. 19
                      /\ world[h].pos.y \in 0 .. 19

\* a tick took the head out of the arena (the boundary check sent the event
\* of the cycle) and the cycle ended with its reset
C17_Witness ==
    /\ CycleEnd /\ hist.reset /\ hist.go_sent = 1 /\ ~hist.self_hit
    /\ \E h \in Heads : world[h].pos = Pos(3, 3)

\* a head stands on the cell of a live segment of the list
HeadOnSegment ==
    \E h \in Heads, i \in 1 .. Len(segments) :
       /\ world[segments[i]].kind = "segment"
       /\ world[segments[i]].pos = world[h].pos

\* the step taken from this state is not the movement of a tick nor a later
\* step of a tick's cycle
BetweenTicks ==
    /\ ~panicked
    /\ \/ pc \in { "events_update", "snake_timer", "handle_movement" }
       \/ ~snake_finished

\* C18: self-collision is detected one tick after the overlap.  A tick before
\* which the head is on no segment sends no GameOverEvent but the boundary's,
\* also when it moves the head onto a cell a segment occupies; an overlap of
\* head and listed segment stays until the next tick whatever the input; and
\* that tick sends a GameOverEvent, which resets the game in the same cycle.
C18_CollisionOneTickLate ==
    [][/\ Tick /\ ~HeadOnSegment =>
             \A h \in Heads :
                hist'.go_sent = IF Outside(world'[h].pos) THEN 1 ELSE 0
       /\ Tick /\ HeadOnSegment =>
             /\ hist'.self_hit
             /\ game_over_events'.cur >= game_over_events.cur + 1
             /\ readers'.game_over >= 1
       /\ BetweenTicks /\ HeadOnSegment => HeadOnSegment'
       /\ pc = "game_over" /\ ~panicked /\ hist.self_hit => hist'.reset
       /\ pc = "apply_commands" /\ ~panicked /\ hist.self_hit =>
             /\ \A h \in Live(world', "head") :
                   world'[h] = HeadEntity(Pos(3, 3), "Up", "Up")
             /\ Len(segments') = 1
             /\ world'[segments'[1]] = SegmentEntity(Pos(3, 2))]_vars

\* a tick ended with the head on a segment without an event, and the game is
\* reset in the cycle of the next tick, on which the head has left the cell
C18_Witness ==
    /\ pc = "apply_commands" /\ hist.self_hit /\ hist.reset
    /\ hist.go_sent = 1
    /\ \E h \in Heads : world[h].pos # hist.tail_pre.pos

\* C19: no lookup fails.  No unwrap has panicked; when snake_movement runs on
\* a tick the segment list is non-empty and every identifier in it names a
\* live segment entity; and when snake_growth has a GrowthEvent to consume,
\* LastTailPosition holds a value.
C19_NoLookupFails ==
    /\ ~panicked
    /\ pc = "snake_movement" /\ snake_finished =>
          /\ Len(segments) >= 1
          /\ \A i \in 1 .. Len(segments) : world[segments[i]].kind = "segment"
          /\ Heads # {}
    /\ pc = "snake_growth" /\ readers.snake_growth > 0 =>
          last_tail_position.some

\* the snake has grown twice, from a recorded tail position each time, and a
\* tick has moved all three segments
C19_Witness ==
    /\ pc = "snake_eating" /\ snake_finished /\ ~panicked
    /\ Len(segments) = 3 /\ last_tail_position.some
    /\ \A i \in 1 .. 3 : world[segments[i]].kind = "segment"

\* C20: once no key is pressed any more and the ticks go on, a GameOverEvent
\* is sent within at most 20 ticks, and the cycle of that event ends in the
\* starting configuration: one head at (3,3) going Up and one segment, at
\* (3,2).
C20_QuietGameEnds ==
    hist.quiet =>
       /\ hist.quiet_ticks <= 20
       /\ CycleEnd /\ hist.reset =>
             /\ \E h \in Ids : /\ Heads = { h }
                               /\ world[h].pos = Pos(3, 3)
                               /\ world[h].direction = "Up"
             /\ \E e \in Ids : /\ Live(world, "segment") = { e }
                               /\ world[e].pos = Pos(3, 2)

====
